---- MODULE Spec2Model ----
(***************************************************************************)
(* Model of the Kubernetes executor of airflow/contrib/executors/          *)
(* kubernetes_executor.py: the executor control loop (KubernetesExecutor   *)
(* and AirflowKubernetesScheduler), the watcher process                    *)
(* (KubernetesJobWatcher) and the cluster and scheduler they talk to.      *)
(*                                                                         *)
(* Strings are sequences of one-character strings.  Python's None and      *)
(* State.NONE are "none"; a dictionary without a key maps it to "absent".  *)
(***************************************************************************)
EXTENDS Naturals, Sequences, FiniteSets

VARIABLES
    pc,              \* position of the executor: idle, watch, results, returned, raised
    task_queue,      \* KubernetesExecutor.task_queue: <<key, command>>
    result_queue,    \* KubernetesExecutor.result_queue: <<key, state, pod_id>>
    watcher_queue,   \* AirflowKubernetesScheduler.watcher_queue: <<pod_id, state, labels>>
    running,         \* BaseExecutor.running (its keys)
    event_buffer,    \* BaseExecutor.event_buffer
    ti_state,        \* TaskInstance.state of the row of each key
    kube_watcher,    \* the process self.kube_watcher refers to: "alive" or "dead"
    pods,            \* the cluster: the pods of the namespace that carry airflow-slave
    uuids,           \* how many uuid4() values have been drawn
    submitted,       \* the keys the scheduler has handed to execute_async
    delete_worker_pods, \* KubeConfig.delete_worker_pods
    sync_log,        \* what the current (or last) sync() call did
    unfinished_tasks, \* Queue.unfinished_tasks of task_queue: put() adds one, task_done()
                     \* takes one away, join() waits for zero
    call             \* the call of a function looked at by itself: its input, whether
                     \* it has returned, and its result

vars == <<pc, task_queue, result_queue, watcher_queue, running, event_buffer,
          ti_state, kube_watcher, pods, uuids, submitted, delete_worker_pods,
          sync_log, unfinished_tasks, call>>

----------------------------------------------------------------------------
(* Bounds of the model *)

\* how many entries the watch queue is given between two reads of the event
\* buffer (those one sync() call takes and those it leaves)
MaxPuts == 2

----------------------------------------------------------------------------
(* Strings *)

Lower(ch) ==
    CASE ch = "D" -> "d"
      [] ch = "T" -> "t"
      [] OTHER -> ch

\* the characters a to z and 0 to 9
LowerAlnum ==
    {"a", "b", "c", "d", "e", "f", "g", "h", "i", "j", "k", "l", "m", "n", "o", "p", "q",
     "r", "s", "t", "u", "v", "w", "x", "y", "z",
     "0", "1", "2", "3", "4", "5", "6", "7", "8", "9"}

\* str.isalnum, for the characters of the model's strings
IsAlnum(ch) == ch \in LowerAlnum \cup {"D", "T"}

\* str.replace(old, new), for one character replaced by one character
Replace(string, old, new) ==
    [i \in DOMAIN string |-> IF string[i] = old THEN new ELSE string[i]]

\* ''.join(ch.lower() for ind, ch in enumerate(string) if ch.isalnum())
_strip_unsafe_kubernetes_special_chars(string) ==
    LET kept == SelectSeq(string, IsAlnum)
    IN [i \in DOMAIN kept |-> Lower(kept[i])]

Prefix(string, n) == SubSeq(string, 1, IF n < Len(string) THEN n ELSE Len(string))

----------------------------------------------------------------------------
(* Task keys, dates and labels *)

\* the characters 0 to 9, by value
DecimalDigits == <<"0", "1", "2", "3", "4", "5", "6", "7", "8", "9">>

\* the value of a digit character
DigitValue == [ch \in {DecimalDigits[i] : i \in 1..10} |->
                 CHOOSE v \in 0..9 : DecimalDigits[v + 1] = ch]

\* n written with width digits
RECURSIVE Digits(_, _)
Digits(n, width) ==
    IF width = 0 THEN <<>>
    ELSE Digits(n \div 10, width - 1) \o <<DecimalDigits[(n % 10) + 1]>>

\* datetime(year, month, day, hour, minute, second, microsecond)
datetime(year, month, day, hour, minute, second, microsecond) ==
    [year |-> year, month |-> month, day |-> day, hour |-> hour, minute |-> minute,
     second |-> second, microsecond |-> microsecond]

\* the execution dates of the tasks
Datetimes ==
    {datetime(2024, 1, 1, 12, 34, 56, 0), datetime(2024, 1, 1, 12, 34, 57, 0),
     datetime(2024, 1, 1, 0, 0, 0, 0), datetime(1999, 12, 31, 23, 59, 59, 999999),
     datetime(2024, 2, 29, 6, 0, 0, 120)}

\* datetime.isoformat(): YYYY-MM-DDTHH:MM:SS, with .ffffff when the microsecond
\* is not 0
isoformat(datetime_obj) ==
    Digits(datetime_obj.year, 4) \o <<"-">> \o Digits(datetime_obj.month, 2) \o <<"-">>
    \o Digits(datetime_obj.day, 2) \o <<"T">> \o Digits(datetime_obj.hour, 2) \o <<":">>
    \o Digits(datetime_obj.minute, 2) \o <<":">> \o Digits(datetime_obj.second, 2)
    \o (IF datetime_obj.microsecond = 0 THEN <<>>
        ELSE <<".">> \o Digits(datetime_obj.microsecond, 6))

\* what parse gives where dateutil's parser.parse raises
ParseError == datetime(0, 0, 0, 0, 0, 0, 0)

\* the number the digits string[from..to] write
RECURSIVE Number(_, _, _)
Number(string, from, to) ==
    IF to < from THEN 0
    ELSE 10 * Number(string, from, to - 1) + DigitValue[string[to]]

\* dateutil's parser.parse, for strings in the form of isoformat(): the datetime
\* the string denotes.  A string in another form is taken as one the parser
\* refuses.
parse(string) ==
    IF /\ Len(string) \in {19, 26}
       /\ string[5] = "-" /\ string[8] = "-" /\ string[11] = "T"
       /\ string[14] = ":" /\ string[17] = ":"
       /\ Len(string) = 26 => string[20] = "."
       /\ \A i \in DOMAIN string :
             i \notin {5, 8, 11, 14, 17, 20} => string[i] \in DOMAIN DigitValue
       /\ Len(string) = 19 => string[19] \in DOMAIN DigitValue
    THEN LET month == Number(string, 6, 7)
             day == Number(string, 9, 10)
             hour == Number(string, 12, 13)
             minute == Number(string, 15, 16)
             second == Number(string, 18, 19)
         IN IF /\ month \in 1..12 /\ day \in 1..31
               /\ hour \in 0..23 /\ minute \in 0..59 /\ second \in 0..59
            THEN datetime(Number(string, 1, 4), month, day, hour, minute, second,
                          IF Len(string) = 26 THEN Number(string, 21, 26) ELSE 0)
            ELSE ParseError
    ELSE ParseError

\* _datetime_to_label_safe_datestring with "-" for "_"
_datetime_to_label_safe_datestring_dash(datetime_obj) ==
    Replace(isoformat(datetime_obj), ":", "-")

_datetime_to_label_safe_datestring(datetime_obj) ==
    Replace(isoformat(datetime_obj), ":", "_")

_label_safe_datestring_to_datetime(string) ==
    parse(Replace(string, "_", ":"))

Key1 == <<<<"D", "a", "g", ".", "1">>, <<"T", "-", "1">>,
          datetime(2024, 1, 1, 12, 34, 56, 0)>>
Key2 == <<<<"D", "a", "g", ".", "1">>, <<"T", "-", "2">>,
          datetime(2024, 1, 1, 12, 34, 57, 0)>>

\* the keys the scheduler submits; each has a row in the task-instance table
Keys == {Key1, Key2}

\* the command of a key (opaque)
Command(key) == <<"airflow", "run", key[1], key[2]>>

LabelNames == {"airflow-slave", "dag_id", "task_id", "execution_date"}

\* the pods of other programs that carry airflow-slave: one without the labels
\* of a task, one whose execution_date is no date
ForeignPods ==
    { [labels |-> [n \in {"airflow-slave"} |-> <<>>], phase |-> "Failed"],
      [labels |-> [n \in LabelNames |->
                      CASE n = "airflow-slave" -> <<>>
                        [] n = "dag_id" -> <<"D", "a", "g", ".", "1">>
                        [] n = "task_id" -> <<"T", "-", "1">>
                        [] OTHER -> <<"g", "a", "r", "b", "a", "g", "e">>],
       phase |-> "Succeeded"] }

\* the key of a label set; <<>> is None, returned when a label is missing or the
\* date does not parse
_labels_to_key(labels) ==
    IF {"dag_id", "task_id", "execution_date"} \subseteq DOMAIN labels
    THEN LET execution_date ==
                 _label_safe_datestring_to_datetime(labels["execution_date"])
         IN IF execution_date # ParseError
            THEN <<labels["dag_id"], labels["task_id"], execution_date>>
            ELSE <<>>
    ELSE <<>>

----------------------------------------------------------------------------
(* Pods *)

MAX_POD_ID_LEN == 253

\* len(uuid4().hex)
UuidLen == 32

\* a pod name: the sanitised prefix, "-", and the uuid (its number stands for
\* the 32 hex digits)
_make_safe_pod_id(safe_dag_id, safe_task_id, safe_uuid) ==
    [prefix |-> Prefix(safe_dag_id \o safe_task_id, MAX_POD_ID_LEN - UuidLen - 1),
     uuid |-> safe_uuid]

_create_pod_id(dag_id, task_id, uuid) ==
    _make_safe_pod_id(_strip_unsafe_kubernetes_special_chars(dag_id),
                      _strip_unsafe_kubernetes_special_chars(task_id),
                      uuid)

\* the labels PodMaker.make_pod gives the pod
make_pod_labels(dag_id, task_id, execution_date) ==
    [n \in LabelNames |->
        CASE n = "airflow-slave" -> <<>>
          [] n = "dag_id" -> dag_id
          [] n = "task_id" -> task_id
          [] OTHER -> execution_date]

make_pod(pod_id, dag_id, task_id, execution_date, airflow_command) ==
    [name |-> pod_id,
     labels |-> make_pod_labels(dag_id, task_id, execution_date),
     args |-> <<airflow_command>>]

----------------------------------------------------------------------------
(* States *)

\* airflow.utils.state.State
State_NONE == "none"
State_QUEUED == "queued"
State_RUNNING == "running"
State_SUCCESS == "success"
State_FAILED == "failed"

\* the phases the cluster reports for a pod
Phases == {"Pending", "Running", "Succeeded", "Failed", "Unknown"}

\* what the cluster may answer to a delete of pod_id
delete_responses(pod_id) ==
    IF pod_id \in DOMAIN pods /\ pods[pod_id].status = "present"
    THEN {"200", "500"}
    ELSE {"404", "500"}

\* the record of one sync() call
EmptyLog ==
    [called |-> FALSE,        \* sync() has been called
     watch_at_start |-> <<>>, \* the watch queue when sync() was called
     was_alive |-> TRUE,      \* is_alive() in the liveness step
     started |-> 0,           \* watcher processes started
     alive_after |-> TRUE,    \* a watcher is alive when the liveness step ends
     consumed |-> <<>>,       \* the watch-queue entries taken, each with the results put
     changes |-> <<>>,        \* the results _change_state was applied to, each with
                              \* the row before, the answer to the delete and whether
                              \* it raised
     tasks_at_launch |-> <<>>, \* the task queue when the launch step was reached
     launched |-> <<>>,       \* the jobs handed to run_next, each with its outcome
     creates |-> <<>>]        \* the pods of the create calls issued

\* no function is looked at by itself
NoCall == [done |-> FALSE]

Init ==
    /\ pc = "idle"
    /\ task_queue = <<>>
    /\ result_queue = <<>>
    /\ watcher_queue = <<>>
    /\ running = {}
    /\ event_buffer = [k \in Keys |-> "absent"]
    /\ ti_state = [k \in Keys |-> State_NONE]
    /\ kube_watcher = "alive"
    /\ pods = <<>>
    /\ uuids = 0
    /\ submitted = {}
    /\ delete_worker_pods \in BOOLEAN
    /\ sync_log = EmptyLog
    /\ unfinished_tasks = 0
    /\ call = NoCall

----------------------------------------------------------------------------
(* The watcher process *)

\* process_status with a put in the Running branch too
process_status_puts_running(queue, pod_id, status, labels) ==
    IF status = "Pending" THEN queue
    ELSE IF status = "Failed" THEN Append(queue, <<pod_id, State_FAILED, labels>>)
    ELSE IF status = "Succeeded" THEN Append(queue, <<pod_id, State_NONE, labels>>)
    ELSE IF status = "Running" THEN Append(queue, <<pod_id, State_RUNNING, labels>>)
    ELSE queue

\* process_status that reports a running pod as failed
process_status_fails_running(queue, pod_id, status, labels) ==
    IF status = "Pending" THEN queue
    ELSE IF status = "Failed" THEN Append(queue, <<pod_id, State_FAILED, labels>>)
    ELSE IF status = "Succeeded" THEN Append(queue, <<pod_id, State_NONE, labels>>)
    ELSE IF status = "Running" THEN Append(queue, <<pod_id, State_FAILED, labels>>)
    ELSE queue

\* process_status that reports a phase it does not know as a failure
process_status_fails_unknown(queue, pod_id, status, labels) ==
    IF status = "Pending" THEN queue
    ELSE IF status = "Failed" THEN Append(queue, <<pod_id, State_FAILED, labels>>)
    ELSE IF status = "Succeeded" THEN Append(queue, <<pod_id, State_NONE, labels>>)
    ELSE IF status = "Running" THEN queue
    ELSE Append(queue, <<pod_id, State_FAILED, labels>>)

\* KubernetesJobWatcher.process_status: the watch queue after the event
process_status(queue, pod_id, status, labels) ==
    IF status = "Pending" THEN queue
    ELSE IF status = "Failed" THEN Append(queue, <<pod_id, State_FAILED, labels>>)
    ELSE IF status = "Succeeded" THEN Append(queue, <<pod_id, State_NONE, labels>>)
    ELSE IF status = "Running" THEN queue
    ELSE queue

\* KubernetesJobWatcher._run: one event of the stream, for a pod of the namespace
\* that carries airflow-slave, with the pod's current phase (the last one, in the
\* one event that tells of the pod's deletion).  The executor reads the watch
\* queue only in the loop of AirflowKubernetesScheduler.sync, so a put during the
\* rest of a call is a put after it.
WatcherEvent(pod_id) ==
    /\ pc \in {"idle", "watch"}
    /\ kube_watcher = "alive"
    /\ pod_id \in DOMAIN pods /\ pods[pod_id].status \in {"present", "deleted"}
    /\ watcher_queue' = process_status(watcher_queue, pod_id, pods[pod_id].phase,
                                       pods[pod_id].labels)
    /\ watcher_queue' # watcher_queue =>
          Len(watcher_queue) + Len(sync_log.consumed) < MaxPuts
    /\ pods' = IF pods[pod_id].status = "deleted"
               THEN [pods EXCEPT ![pod_id].status = "gone"] ELSE pods
    /\ UNCHANGED <<pc, task_queue, result_queue, running, event_buffer, ti_state,
                   kube_watcher, uuids, submitted, delete_worker_pods,
                   unfinished_tasks, call, sync_log>>

\* KubernetesJobWatcher.run: the stream raises, run re-raises and the process
\* exits.  The executor looks at the process only when sync() begins, so an exit
\* during a call is an exit after it.
WatcherRaise ==
    /\ pc = "idle"
    /\ kube_watcher = "alive"
    /\ kube_watcher' = "dead"
    /\ UNCHANGED <<pc, task_queue, result_queue, watcher_queue, running, event_buffer,
                   ti_state, pods, uuids, submitted, delete_worker_pods,
                   unfinished_tasks, call, sync_log>>

----------------------------------------------------------------------------
(* The scheduler and the cluster *)

\* KubernetesExecutor.execute_async: the task queue after the call
execute_async(queue, key, command) == Append(queue, <<key, command>>)

\* Queue.put as execute_async calls it: the item counts as unfinished
put_unfinished(unfinished) == unfinished + 1

\* The scheduler queues a task: the row becomes QUEUED, BaseExecutor.heartbeat
\* records the key as running and calls execute_async.  A key names one attempt
\* and is submitted once.
Submit(key) ==
    /\ pc = "idle"
    /\ key \notin submitted
    /\ submitted' = submitted \cup {key}
    /\ ti_state' = [ti_state EXCEPT ![key] = State_QUEUED]
    /\ running' = running \cup {key}
    /\ task_queue' = execute_async(task_queue, key, Command(key))
    /\ unfinished_tasks' = put_unfinished(unfinished_tasks)
    /\ UNCHANGED <<pc, result_queue, watcher_queue, event_buffer, kube_watcher, pods,
                   uuids, delete_worker_pods, call, sync_log>>

\* The scheduler reads the event buffer after sync() returned
\* (BaseExecutor.get_event_buffer empties it); the record of the call ends.
GetEventBuffer ==
    /\ pc = "returned"
    /\ pc' = "idle"
    /\ event_buffer' = [k \in Keys |-> "absent"]
    /\ sync_log' = EmptyLog
    /\ UNCHANGED <<task_queue, result_queue, watcher_queue, running, ti_state,
                   kube_watcher, pods, uuids, submitted, delete_worker_pods,
                   unfinished_tasks, call>>

\* the phases a pod may move to from a phase
next_phases(phase) ==
    IF phase = "Pending" THEN {"Running", "Failed"}
    ELSE IF phase = "Running" THEN {"Succeeded", "Failed", "Unknown"}
    ELSE {}

\* the states the task running in a pod may leave in its row when the pod moves
\* to a phase: it marks the row RUNNING when it starts, and writes its outcome
\* unless it dies first
next_rows(row, phase) ==
    IF row \notin {State_QUEUED, State_RUNNING} THEN {row}
    ELSE IF phase = "Running" THEN {State_RUNNING}
    ELSE IF phase = "Succeeded" THEN {State_SUCCESS, row}
    ELSE IF phase = "Failed" THEN {State_FAILED, row}
    ELSE {row}

\* The cluster moves a pod to its next phase; the task in it writes its row.
PodPhaseChange(pod_id) ==
    /\ pc = "idle"
    /\ pod_id \in DOMAIN pods /\ pods[pod_id].status = "present"
    /\ \E phase \in next_phases(pods[pod_id].phase) :
          /\ pods' = [pods EXCEPT ![pod_id].phase = phase]
          /\ LET key == _labels_to_key(pods[pod_id].labels)
             IN IF key = <<>> THEN ti_state' = ti_state
                ELSE \E row \in next_rows(ti_state[key], phase) :
                        ti_state' = [ti_state EXCEPT ![key] = row]
    /\ UNCHANGED <<pc, task_queue, result_queue, watcher_queue, running, event_buffer,
                   kube_watcher, uuids, submitted, delete_worker_pods,
                   unfinished_tasks, call, sync_log>>

\* the name of the pod of another program
ForeignName == [prefix |-> <<"x">>, uuid |-> 0]

\* A pod of another program reaches its terminal phase (of its earlier phases
\* the watcher only logs).
ForeignPod(pod) ==
    /\ pc = "idle"
    /\ ForeignName \notin DOMAIN pods
    /\ pods' = [p \in DOMAIN pods \cup {ForeignName} |->
                   IF p = ForeignName
                   THEN [labels |-> pod.labels, phase |-> pod.phase, status |-> "present"]
                   ELSE pods[p]]
    /\ UNCHANGED <<pc, task_queue, result_queue, watcher_queue, running, event_buffer,
                   ti_state, kube_watcher, uuids, submitted, delete_worker_pods,
                   unfinished_tasks, call, sync_log>>

----------------------------------------------------------------------------
(* The executor: KubernetesExecutor.sync *)

\* _health_check_kube_watcher that only logs the death
_health_check_only_logs(watcher) ==
    [kube_watcher |-> watcher, started |-> 0]

\* _health_check_kube_watcher whose new watcher is made but never started
_health_check_no_start(watcher) ==
    IF watcher = "alive"
    THEN [kube_watcher |-> watcher, started |-> 0]
    ELSE [kube_watcher |-> "dead", started |-> 1]

\* _health_check_kube_watcher that starts a watcher whether or not one is alive
_health_check_always_starts(watcher) ==
    [kube_watcher |-> "alive", started |-> 1]

\* AirflowKubernetesScheduler._health_check_kube_watcher: the watcher afterwards
\* and the number of processes started
_health_check_kube_watcher(watcher) ==
    IF watcher = "alive"
    THEN [kube_watcher |-> watcher, started |-> 0]
    ELSE [kube_watcher |-> "alive", started |-> 1]

\* The scheduler calls sync(): kub_client.sync() looks after the watcher.
SyncBegin ==
    /\ pc = "idle"
    /\ pc' = "watch"
    /\ LET health == _health_check_kube_watcher(kube_watcher)
       IN /\ kube_watcher' = health.kube_watcher
          /\ sync_log' = [EmptyLog EXCEPT !.called = TRUE,
                                          !.watch_at_start = watcher_queue,
                                          !.was_alive = (kube_watcher = "alive"),
                                          !.started = health.started,
                                          !.alive_after = (health.kube_watcher = "alive")]
    /\ UNCHANGED <<task_queue, result_queue, watcher_queue, running, event_buffer,
                   ti_state, pods, uuids, submitted, delete_worker_pods,
                   unfinished_tasks, call>>

\* process_watcher_task with "if key and state" for "if key"
process_watcher_task_needs_state(queue, task) ==
    LET key == _labels_to_key(task[3])
    IN IF key # <<>> /\ task[2] # State_NONE
       THEN Append(queue, <<key, task[2], task[1]>>) ELSE queue

\* process_watcher_task without the test of the key
process_watcher_task_any_key(queue, task) ==
    Append(queue, <<_labels_to_key(task[3]), task[2], task[1]>>)

\* process_watcher_task that puts the result at the head of the result queue
process_watcher_task_puts_first(queue, task) ==
    LET key == _labels_to_key(task[3])
    IN IF key # <<>> THEN <<<<key, task[2], task[1]>>>> \o queue ELSE queue

\* AirflowKubernetesScheduler.process_watcher_task: the result queue after the
\* watch-queue entry task
process_watcher_task(queue, task) ==
    LET key == _labels_to_key(task[3])
    IN IF key # <<>> THEN Append(queue, <<key, task[2], task[1]>>) ELSE queue

\* AirflowKubernetesScheduler.sync: one pass of the loop over the watch queue
ProcessWatcherTask ==
    /\ pc = "watch"
    /\ watcher_queue # <<>>
    /\ watcher_queue' = Tail(watcher_queue)
    /\ result_queue' = process_watcher_task(result_queue, Head(watcher_queue))
    /\ sync_log' = [sync_log EXCEPT
          !.consumed = Append(@, [task |-> Head(watcher_queue),
                                  put |-> SubSeq(result_queue', Len(result_queue) + 1,
                                                 Len(result_queue'))])]
    /\ UNCHANGED <<pc, task_queue, running, event_buffer, ti_state, kube_watcher,
                   pods, uuids, submitted, delete_worker_pods,
                   unfinished_tasks, call>>

\* AirflowKubernetesScheduler.sync: the watch queue is empty, the loop ends
WatchDrained ==
    /\ pc = "watch"
    /\ watcher_queue = <<>>
    /\ pc' = "results"
    /\ UNCHANGED <<task_queue, result_queue, watcher_queue, running, event_buffer,
                   ti_state, kube_watcher, pods, uuids, submitted, delete_worker_pods,
                   unfinished_tasks, call, sync_log>>

\* AirflowKubernetesScheduler.delete_pod: whether a delete call is issued
delete_pod_calls(enabled) == enabled

\* delete_pod without the test of e.status
delete_pod_raises_on_404(response) == response # "200"

\* AirflowKubernetesScheduler.delete_pod: whether it raises on the answer
delete_pod_raises(response) == response # "200" /\ response # "404"

\* _change_state with the test of State.QUEUED left out
change_row_running_only(row, state) ==
    IF row = State_RUNNING THEN state ELSE row

\* _change_state that writes the row whatever its state
change_row_always(row, state) == state

\* KubernetesExecutor._change_state: the row of the key afterwards
change_row(row, state) ==
    IF row = State_RUNNING \/ row = State_QUEUED THEN state ELSE row

\* KubernetesExecutor.sync: one pass of the loop over the result queue, which
\* applies _change_state to the result: the delete, the running set, the event
\* buffer and the row.  The query's one() raises for a key without a row.
ChangeState ==
    /\ pc = "results"
    /\ result_queue # <<>>
    /\ result_queue' = Tail(result_queue)
    /\ LET key == Head(result_queue)[1]
           state == Head(result_queue)[2]
           pod_id == Head(result_queue)[3]
           terminal == state # State_RUNNING
           calls == terminal /\ delete_pod_calls(delete_worker_pods)
       IN \E response \in (IF calls THEN delete_responses(pod_id) ELSE {"no call"}) :
             LET raises == (calls /\ delete_pod_raises(response)) \/ key \notin Keys
             IN /\ sync_log' = [sync_log EXCEPT
                      !.changes = Append(@, [key |-> key, state |-> state,
                                             pod_id |-> pod_id,
                                             row |-> IF key \in Keys THEN ti_state[key]
                                                     ELSE "absent",
                                             response |-> response,
                                             raised |-> raises])]
                /\ pods' = IF response = "200"
                           THEN [pods EXCEPT ![pod_id].status = "deleted"] ELSE pods
                /\ IF raises
                   THEN /\ pc' = "raised"
                        /\ UNCHANGED <<running, event_buffer, ti_state>>
                   ELSE /\ pc' = pc
                        /\ running' = IF terminal THEN running \ {key} ELSE running
                        /\ event_buffer' = [event_buffer EXCEPT ![key] = state]
                        /\ ti_state' = [ti_state EXCEPT ![key] = change_row(@, state)]
    /\ UNCHANGED <<task_queue, watcher_queue, kube_watcher, uuids, submitted,
                   delete_worker_pods,
                   unfinished_tasks, call>>

\* how building and creating a pod may end: the pod is created, the cluster
\* refuses the create call, or make_pod raises before any call
run_outcomes == {"created", "create error", "build error"}

\* run_next without the try
run_next_no_try(outcome) == outcome # "created"

\* AirflowKubernetesScheduler.run_next: whether it raises on the outcome
run_next_raises(outcome) == FALSE

\* the launch step reading the head of the task queue without taking it
take_task_peek(queue) ==
    IF queue # <<>>
    THEN [jobs |-> <<Head(queue)>>, rest |-> queue]
    ELSE [jobs |-> <<>>, rest |-> queue]

\* the launch step taking the task put last
take_task_last(queue) ==
    IF queue # <<>>
    THEN [jobs |-> <<queue[Len(queue)]>>, rest |-> SubSeq(queue, 1, Len(queue) - 1)]
    ELSE [jobs |-> <<>>, rest |-> queue]

\* KubernetesExecutor.sync: the jobs the launch step takes from the task queue
\* and the queue it leaves
take_task(queue) ==
    IF queue # <<>>
    THEN [jobs |-> <<Head(queue)>>, rest |-> Tail(queue)]
    ELSE [jobs |-> <<>>, rest |-> queue]

\* AirflowKubernetesScheduler.run_next: the pod it builds for the job
run_next_pod(next_job, uuid) ==
    LET key == next_job[1]
        command == next_job[2]
    IN make_pod(_create_pod_id(key[1], key[2], uuid), key[1], key[2],
                _datetime_to_label_safe_datestring(key[3]), command)

\* KubernetesExecutor.sync: the result queue is empty; take one task, if there is
\* one, and run_next it; sync() returns
Launch ==
    /\ pc = "results"
    /\ result_queue = <<>>
    /\ LET step == take_task(task_queue)
       IN /\ task_queue' = step.rest
          /\ IF step.jobs # <<>>
             THEN /\ uuids' = uuids + 1
                  /\ \E outcome \in run_outcomes :
                        LET pod == run_next_pod(step.jobs[1], uuids + 1)
                        IN /\ pods' = IF outcome = "created"
                                      THEN [p \in DOMAIN pods \cup {pod.name} |->
                                               IF p = pod.name
                                               THEN [labels |-> pod.labels,
                                                     phase |-> "Pending",
                                                     status |-> "present"]
                                               ELSE pods[p]]
                                      ELSE pods
                           /\ sync_log' = [sync_log EXCEPT
                                 !.tasks_at_launch = task_queue,
                                 !.launched = Append(@, [job |-> step.jobs[1],
                                                         outcome |-> outcome]),
                                 !.creates = IF outcome = "build error" THEN @
                                             ELSE Append(@, pod.name)]
                           /\ pc' = IF run_next_raises(outcome) THEN "raised"
                                    ELSE "returned"
             ELSE /\ UNCHANGED <<uuids, pods>>
                  /\ sync_log' = [sync_log EXCEPT !.tasks_at_launch = task_queue]
                  /\ pc' = "returned"
    /\ UNCHANGED <<result_queue, watcher_queue, running, event_buffer, ti_state,
                   kube_watcher, submitted, delete_worker_pods,
                   unfinished_tasks, call>>

----------------------------------------------------------------------------

Next ==
    \/ SyncBegin
    \/ ProcessWatcherTask
    \/ WatchDrained
    \/ ChangeState
    \/ Launch
    \/ GetEventBuffer
    \/ \E key \in Keys : Submit(key)
    \/ \E pod_id \in DOMAIN pods : PodPhaseChange(pod_id)
    \/ \E pod \in ForeignPods : ForeignPod(pod)
    \/ \E pod_id \in DOMAIN pods : WatcherEvent(pod_id)
    \/ WatcherRaise

Spec == Init /\ [][Next]_vars

----------------------------------------------------------------------------
(* What the claims speak of *)

\* the watch-queue entries the current call has taken
Taken == [i \in DOMAIN sync_log.consumed |-> sync_log.consumed[i].task]

RECURSIVE Flatten(_)
Flatten(seqs) == IF seqs = <<>> THEN <<>> ELSE Head(seqs) \o Flatten(Tail(seqs))

\* the results the current call has put on the result queue
Put == Flatten([i \in DOMAIN sync_log.consumed |-> sync_log.consumed[i].put])

\* the results the current call has applied _change_state to
Changed ==
    [j \in DOMAIN sync_log.changes |->
        <<sync_log.changes[j].key, sync_log.changes[j].state, sync_log.changes[j].pod_id>>]

\* a delete call for the pod has been issued in the current call
DeleteIssued(pod_id) ==
    \E j \in DOMAIN sync_log.changes :
        /\ sync_log.changes[j].pod_id = pod_id
        /\ sync_log.changes[j].response # "no call"

IsPrefix(a, b) == Len(a) <= Len(b) /\ SubSeq(b, 1, Len(a)) = a

----------------------------------------------------------------------------
(* C1: when sync() has returned, every entry it took for a pod in phase
   Succeeded whose labels decode to a submitted key K has left SUCCEEDED for K
   in the event buffer, a delete call for the pod (delete_worker_pods enabled)
   and K out of the running set. *)
C1_HappyPath ==
    (pc = "returned" /\ delete_worker_pods) =>
        \A i \in DOMAIN Taken :
            LET key == _labels_to_key(Taken[i][3])
            IN (key \in submitted /\ pods[Taken[i][1]].phase = "Succeeded") =>
                  /\ event_buffer[key] = State_SUCCESS
                  /\ DeleteIssued(Taken[i][1])
                  /\ key \notin running

\* a call has returned after it took the Succeeded event of the pod of a
\* submitted key and deleted the pod; the event buffer holds None for the key
C1_Witness ==
    /\ pc = "returned"
    /\ delete_worker_pods
    /\ \E i \in DOMAIN Taken :
          LET key == _labels_to_key(Taken[i][3])
          IN /\ key \in submitted
             /\ pods[Taken[i][1]].phase = "Succeeded"
             /\ DeleteIssued(Taken[i][1])
             /\ key \notin running
             /\ event_buffer[key] = State_NONE

(* C2, as amended: when sync() has returned, every entry it took for a pod in
   phase Failed whose labels decode to a submitted key K has left FAILED for K
   in the event buffer, a delete call for the pod if delete_worker_pods is
   enabled, and the row of K FAILED if it was RUNNING or QUEUED. *)
C2_FailurePath ==
    pc = "returned" =>
        \A i \in DOMAIN Taken :
            LET key == _labels_to_key(Taken[i][3])
            IN (key \in submitted /\ pods[Taken[i][1]].phase = "Failed") =>
                  /\ event_buffer[key] = State_FAILED
                  /\ delete_worker_pods => DeleteIssued(Taken[i][1])
                  /\ \A j \in DOMAIN sync_log.changes :
                        (/\ sync_log.changes[j].key = key
                         /\ sync_log.changes[j].row \in {State_RUNNING, State_QUEUED})
                        => ti_state[key] = State_FAILED

\* C2 as stated: the delete call is issued whatever the configuration
C2_FailurePathAlwaysDeletes ==
    pc = "returned" =>
        \A i \in DOMAIN Taken :
            LET key == _labels_to_key(Taken[i][3])
            IN (key \in submitted /\ pods[Taken[i][1]].phase = "Failed") =>
                  /\ event_buffer[key] = State_FAILED
                  /\ DeleteIssued(Taken[i][1])
                  /\ \A j \in DOMAIN sync_log.changes :
                        (/\ sync_log.changes[j].key = key
                         /\ sync_log.changes[j].row \in {State_RUNNING, State_QUEUED})
                        => ti_state[key] = State_FAILED

\* a call has returned after it took the Failed event of a pod whose row was
\* QUEUED, and deleted the pod
C2_Witness ==
    /\ pc = "returned"
    /\ \E j \in DOMAIN sync_log.changes :
          /\ sync_log.changes[j].state = State_FAILED
          /\ sync_log.changes[j].row = State_QUEUED
          /\ sync_log.changes[j].response = "200"
          /\ pods[sync_log.changes[j].pod_id].phase = "Failed"

(* C3: a sync() call issues at most one create-pod call; with a task queue that
   is not empty at the launch step it takes exactly the first (key, command)
   and hands it to run_next, with an empty one it launches nothing. *)
C3_LaunchBudget ==
    /\ Len(sync_log.creates) <= 1
    /\ Len(sync_log.launched) <= 1
    /\ pc = "returned" =>
          IF sync_log.tasks_at_launch # <<>>
          THEN /\ Len(sync_log.launched) = 1
               /\ sync_log.launched[1].job = Head(sync_log.tasks_at_launch)
               /\ task_queue = Tail(sync_log.tasks_at_launch)
          ELSE /\ sync_log.launched = <<>>
               /\ sync_log.creates = <<>>
               /\ task_queue = <<>>

\* a call has returned that found two tasks, launched the first and left the
\* second
C3_Witness ==
    /\ pc = "returned"
    /\ Len(sync_log.tasks_at_launch) = 2
    /\ Len(sync_log.creates) = 1
    /\ task_queue = <<sync_log.tasks_at_launch[2]>>

(* C4: a sync() call takes every watch-queue entry that was there when it
   began, in order, before it applies any result; it applies the results before
   the launch step; and when it returns the result queue is empty and every
   entry it took whose labels decode has been applied and is in the event
   buffer. *)
C4_DrainsAll ==
    /\ pc \in {"results", "returned", "raised"} =>
          IsPrefix(sync_log.watch_at_start, Taken)
    /\ pc = "watch" => sync_log.changes = <<>>
    /\ pc \in {"watch", "results"} => sync_log.launched = <<>>
    /\ pc = "returned" =>
          /\ result_queue = <<>>
          /\ \A i \in DOMAIN Taken :
                LET key == _labels_to_key(Taken[i][3])
                IN key # <<>> =>
                      /\ \E j \in DOMAIN Changed :
                            Changed[j] = <<key, Taken[i][2], Taken[i][1]>>
                      /\ event_buffer[key] = Taken[i][2]

\* a call has returned that found two entries on the watch queue
C4_Witness ==
    /\ pc = "returned"
    /\ Len(sync_log.watch_at_start) = 2
    /\ Len(sync_log.changes) = 2

(* C5: the liveness step of sync() starts one watcher process if the watcher
   is not alive and none if it is, and a watcher is alive when the step ends. *)
C5_WatcherRespawn ==
    sync_log.called =>
        /\ sync_log.started = (IF sync_log.was_alive THEN 0 ELSE 1)
        /\ sync_log.alive_after

\* a call found the watcher dead and the watch queue empty, and has taken an
\* entry that the watcher it started has put
C5_Witness ==
    /\ sync_log.called
    /\ ~sync_log.was_alive
    /\ sync_log.started = 1
    /\ sync_log.watch_at_start = <<>>
    /\ Taken # <<>>

\* the entries of a pod among those that wait on the watch queue and those the
\* current call has taken
EntriesOf(pod_id) ==
    {i \in DOMAIN (Taken \o watcher_queue) : (Taken \o watcher_queue)[i][1] = pod_id}

(* C6, as amended: the watch queue receives one entry for every stream event
   that carries phase Succeeded or Failed and none for another event; the
   entries of one pod all carry its name, its labels and the outcome of its
   terminal phase (FAILED for Failed, None for Succeeded). *)
C6_OneEntryPerTerminalEvent ==
    /\ [](\A i \in DOMAIN watcher_queue :
            LET pod_id == watcher_queue[i][1]
            IN /\ pod_id \in DOMAIN pods
               /\ pods[pod_id].phase \in {"Succeeded", "Failed"}
               /\ watcher_queue[i][2] =
                     (IF pods[pod_id].phase = "Failed" THEN State_FAILED ELSE State_NONE)
               /\ watcher_queue[i][3] = pods[pod_id].labels)
    /\ [][\A pod_id \in DOMAIN pods :
            WatcherEvent(pod_id) =>
               Len(watcher_queue') =
                  Len(watcher_queue)
                  + (IF pods[pod_id].phase \in {"Succeeded", "Failed"} THEN 1 ELSE 0)]_vars

\* C6 as stated: a pod has at most one entry
C6_OneEntryPerPod ==
    \A pod_id \in DOMAIN pods : Cardinality(EntriesOf(pod_id)) <= 1

\* two entries of one pod wait on the watch queue
C6_Witness ==
    \E pod_id \in DOMAIN pods :
        Cardinality({i \in DOMAIN watcher_queue : watcher_queue[i][1] = pod_id}) = 2

(* C7: a delete answered with 404 raises nothing: the result is recorded in the
   event buffer, its key leaves the running set, and the call goes on with the
   results that remain, all of which are applied when it returns. *)
C7_Delete404 ==
    /\ \A j \in DOMAIN sync_log.changes :
          sync_log.changes[j].response = "404" =>
              /\ ~sync_log.changes[j].raised
              /\ event_buffer[sync_log.changes[j].key] = sync_log.changes[j].state
              /\ sync_log.changes[j].key \notin running
              /\ j = Len(sync_log.changes) => pc \in {"results", "returned"}
    /\ pc = "results" => Changed \o result_queue = Put
    /\ pc = "returned" => Changed = Put

\* a call has returned that was answered 404 and applied another result after
\* that one
C7_Witness ==
    /\ pc = "returned"
    /\ \E j \in DOMAIN sync_log.changes :
          /\ sync_log.changes[j].response = "404"
          /\ j < Len(sync_log.changes)

(* C8: a delete answered with an error other than 404 does not make sync()
   raise, and the results that remain are applied in the same call. *)
C8_DeleteErrorContinues ==
    /\ \A j \in DOMAIN sync_log.changes :
          sync_log.changes[j].response = "500" => ~sync_log.changes[j].raised
    /\ pc # "raised"

\* a delete was answered 500 and the call has raised with a result left on
\* the result queue
C8_Witness ==
    /\ pc = "raised"
    /\ sync_log.changes # <<>>
    /\ sync_log.changes[Len(sync_log.changes)].response = "500"
    /\ sync_log.changes[Len(sync_log.changes)].raised
    /\ result_queue # <<>>

(* C9: when building the pod or the create call fails, run_next raises nothing
   and sync() returns; the task has left the task queue and is not put back,
   there is no pod for its key, and no result is put for it: a result on the
   result queue always comes from a pod with the labels of its key. *)
C9_LaunchError ==
    /\ \A l \in DOMAIN sync_log.launched :
          sync_log.launched[l].outcome # "created" =>
              /\ pc = "returned"
              /\ task_queue = Tail(sync_log.tasks_at_launch)
              /\ \A t \in DOMAIN task_queue : task_queue[t] # sync_log.launched[l].job
              /\ result_queue = <<>>
              /\ \A pod_id \in DOMAIN pods :
                    _labels_to_key(pods[pod_id].labels) # sync_log.launched[l].job[1]
    /\ \A r \in DOMAIN result_queue :
          /\ result_queue[r][3] \in DOMAIN pods
          /\ _labels_to_key(pods[result_queue[r][3]].labels) = result_queue[r][1]

\* a call has returned whose create call the cluster refused
C9_Witness ==
    /\ pc = "returned"
    /\ Len(sync_log.launched) = 1
    /\ sync_log.launched[1].outcome = "create error"
    /\ Len(sync_log.creates) = 1

(* C10: taking a watch-queue entry whose labels lack dag_id, task_id or
   execution_date, or whose execution_date does not parse, puts no result,
   issues no delete, leaves the event buffer, the running set and the rows as
   they are and stays in the loop; no result or delete of the call is for such
   an entry, and the entries behind it are taken as well. *)
C10_DecodeFailure ==
    /\ [][(/\ pc = "watch"
           /\ Len(sync_log'.consumed) > Len(sync_log.consumed)
           /\ _labels_to_key(Head(watcher_queue)[3]) = <<>>)
          => /\ pc' = "watch"
             /\ watcher_queue' = Tail(watcher_queue)
             /\ UNCHANGED <<result_queue, event_buffer, running, ti_state, pods>>
             /\ sync_log'.changes = sync_log.changes]_vars
    /\ [](\A i \in DOMAIN Taken :
            _labels_to_key(Taken[i][3]) = <<>> =>
                /\ sync_log.consumed[i].put = <<>>
                /\ ~DeleteIssued(Taken[i][1])
                /\ \A j \in DOMAIN Changed : Changed[j][3] # Taken[i][1])
    /\ [](pc \in {"results", "returned"} => IsPrefix(sync_log.watch_at_start, Taken))

\* a call has returned that took an entry without a key and, behind it, one that
\* it applied
C10_Witness ==
    /\ pc = "returned"
    /\ Len(Taken) = 2
    /\ _labels_to_key(Taken[1][3]) = <<>>
    /\ Changed = <<<<_labels_to_key(Taken[2][3]), Taken[2][2], Taken[2][1]>>>>

----------------------------------------------------------------------------
(* Functions looked at by themselves: the executor does not run *)

\* the variables of the executor, its watcher and the cluster
running_vars == <<pc, task_queue, result_queue, watcher_queue, running, event_buffer,
                  ti_state, kube_watcher, pods, uuids, submitted, delete_worker_pods,
                  sync_log, unfinished_tasks>>

\* no executor has been started
NotStarted ==
    /\ pc = "off"
    /\ task_queue = <<>>
    /\ result_queue = <<>>
    /\ watcher_queue = <<>>
    /\ running = {}
    /\ event_buffer = [k \in Keys |-> "absent"]
    /\ ti_state = [k \in Keys |-> State_NONE]
    /\ kube_watcher = "dead"
    /\ pods = <<>>
    /\ uuids = 0
    /\ submitted = {}
    /\ delete_worker_pods = TRUE
    /\ sync_log = EmptyLog
    /\ unfinished_tasks = 0

----------------------------------------------------------------------------
(* KubeConfig *)

\* what safe_get returns when the option is not there
None == "<None>"

\* the values an option of the kubernetes section may have
OptionValues == {None, "", "a", "b"}

\* Python's truth value of an option
Truthy(value) == value # None /\ value # ""

\* _validate with and for or in the test of the git pair
_validate_and(dags_volume_claim, git_repo, git_branch) ==
    IF ~Truthy(dags_volume_claim) /\ (~Truthy(git_repo) /\ ~Truthy(git_branch))
    THEN "AirflowConfigException" ELSE "ok"

\* KubeConfig._validate: how it ends
_validate(dags_volume_claim, git_repo, git_branch) ==
    IF ~Truthy(dags_volume_claim) /\ (~Truthy(git_repo) \/ ~Truthy(git_branch))
    THEN "AirflowConfigException" ELSE "ok"

\* the configuration KubeConfig.__init__ is about to read
InitConfig ==
    /\ NotStarted
    /\ \E dags_volume_claim \in OptionValues, git_repo \in OptionValues,
          git_branch \in OptionValues :
          call = [done |-> FALSE,
                  in |-> [dags_volume_claim |-> dags_volume_claim,
                          git_repo |-> git_repo, git_branch |-> git_branch],
                  out |-> ""]

\* KubeConfig.__init__: reads the options and validates them
KubeConfigInit ==
    /\ ~call.done
    /\ call' = [call EXCEPT !.done = TRUE,
                            !.out = _validate(call.in.dags_volume_claim,
                                              call.in.git_repo, call.in.git_branch)]
    /\ UNCHANGED running_vars

NextConfig == KubeConfigInit

SpecConfig == InitConfig /\ [][NextConfig]_vars

\* the modes of the configuration
ClaimSet == Truthy(call.in.dags_volume_claim)
GitPairSet == Truthy(call.in.git_repo) /\ Truthy(call.in.git_branch)

(* C11, as amended: construction succeeds exactly when dags_volume_claim is set
   or both git_repo and git_branch are set (with both the claim and the pair
   set it succeeds); with neither, or with one of git_repo and git_branch and
   no claim, it fails with a configuration error. *)
C11_ValidateAtLeastOne ==
    call.done =>
        /\ call.out = "ok" <=> (ClaimSet \/ GitPairSet)
        /\ call.out = "AirflowConfigException" <=> ~(ClaimSet \/ GitPairSet)

\* C11 as stated: construction succeeds only with exactly one of the two set
C11_ValidateExactlyOne ==
    call.done =>
        (call.out = "ok" <=> ((ClaimSet /\ ~GitPairSet) \/ (~ClaimSet /\ GitPairSet)))

\* a configuration with the claim and the git pair has been accepted
C11_Witness ==
    /\ call.done
    /\ ClaimSet /\ GitPairSet
    /\ call.out = "ok"

----------------------------------------------------------------------------
(* KubernetesExecutor.start *)

\* the states a row of the task-instance table may be in
RowStates == {State_NONE, State_QUEUED, State_RUNNING, State_SUCCESS, State_FAILED,
              "scheduled", "up_for_retry", "upstream_failed", "skipped", "shutdown"}

\* clear_queued that resets the rows of running tasks too
clear_queued_and_running(table) ==
    [k \in DOMAIN table |->
        IF table[k] = State_QUEUED \/ table[k] = State_RUNNING THEN State_NONE
        ELSE table[k]]

\* KubernetesExecutor.clear_queued: the task-instance table after the update
clear_queued(table) ==
    [k \in DOMAIN table |-> IF table[k] = State_QUEUED THEN State_NONE ELSE table[k]]

\* the task-instance table a scheduler finds when it starts
InitStart ==
    /\ pc = "off"
    /\ task_queue = <<>>
    /\ result_queue = <<>>
    /\ watcher_queue = <<>>
    /\ running = {}
    /\ event_buffer = [k \in Keys |-> "absent"]
    /\ ti_state \in [Keys -> RowStates]
    /\ kube_watcher = "dead"
    /\ pods = <<>>
    /\ uuids = 0
    /\ submitted = {}
    /\ delete_worker_pods \in BOOLEAN
    /\ sync_log = EmptyLog
    /\ unfinished_tasks = 0
    /\ call = [done |-> FALSE, in |-> ti_state]

\* KubernetesExecutor.start: the session and the queues are made, the scheduler
\* of pods starts its watcher, and clear_queued resets the QUEUED rows
Start ==
    /\ pc = "off"
    /\ pc' = "idle"
    /\ task_queue' = <<>>
    /\ result_queue' = <<>>
    /\ watcher_queue' = <<>>
    /\ kube_watcher' = "alive"
    /\ ti_state' = clear_queued(ti_state)
    /\ call' = [call EXCEPT !.done = TRUE]
    /\ UNCHANGED <<running, event_buffer, pods, uuids, submitted, delete_worker_pods,
                   sync_log, unfinished_tasks>>

NextStart == Start

SpecStart == InitStart /\ [][NextStart]_vars

(* C12: when start() has returned no row is QUEUED: every row that was QUEUED
   is NONE and every other row is as it was. *)
C12_StartClearsQueued ==
    call.done =>
        \A k \in Keys :
            /\ ti_state[k] # State_QUEUED
            /\ call.in[k] = State_QUEUED => ti_state[k] = State_NONE
            /\ call.in[k] # State_QUEUED => ti_state[k] = call.in[k]

\* start() has returned with one row reset and a row of a running task kept
C12_Witness ==
    /\ call.done
    /\ pc = "idle"
    /\ \E k \in Keys : call.in[k] = State_QUEUED /\ ti_state[k] = State_NONE
    /\ \E k \in Keys : call.in[k] = State_RUNNING /\ ti_state[k] = State_RUNNING

----------------------------------------------------------------------------
(* KubernetesExecutor.end *)

\* Queue.join: whether it returns (every item put has been marked done with
\* task_done(), which nothing in the executor calls)
join_returns(unfinished) == unfinished = 0

\* The scheduler calls end(): the call waits in task_queue.join().
End ==
    /\ pc = "idle"
    /\ pc' = "joining"
    /\ UNCHANGED <<task_queue, result_queue, watcher_queue, running, event_buffer,
                   ti_state, kube_watcher, pods, uuids, submitted, delete_worker_pods,
                   sync_log, unfinished_tasks, call>>

\* task_queue.join() returns, and end() with it.
EndReturn ==
    /\ pc = "joining"
    /\ join_returns(unfinished_tasks)
    /\ pc' = "ended"
    /\ UNCHANGED <<task_queue, result_queue, watcher_queue, running, event_buffer,
                   ti_state, kube_watcher, pods, uuids, submitted, delete_worker_pods,
                   sync_log, unfinished_tasks, call>>

\* the scheduler submits tasks, calls sync() and, in the end, end(); the pods it
\* launches stay as they are
NextEnd ==
    \/ \E key \in Keys : Submit(key)
    \/ SyncBegin
    \/ WatchDrained
    \/ Launch
    \/ GetEventBuffer
    \/ End
    \/ EndReturn

SpecEnd == Init /\ [][NextEnd]_vars

(* C13: a call of end() that waits while the task queue is drained (every task
   submitted has been taken and launched by sync()) returns. *)
C13_EndReturnsWhenDrained ==
    (pc = "joining" /\ task_queue = <<>>) => join_returns(unfinished_tasks)

\* end() waits although sync() has taken and launched every submitted task
C13_Witness ==
    /\ pc = "joining"
    /\ submitted = Keys
    /\ task_queue = <<>>
    /\ uuids = Cardinality(Keys)
    /\ ~join_returns(unfinished_tasks)

----------------------------------------------------------------------------
(* KubernetesJobWatcher.process_status *)

\* the phase strings of the events: the phases of the cluster and strings that
\* are none of them
EventPhases == Phases \cup {"", "succeeded", "Completed"}

\* the labels of the events
EventLabels ==
    {pod.labels : pod \in ForeignPods}
    \cup {make_pod_labels(key[1], key[2], _datetime_to_label_safe_datestring(key[3])) :
            key \in Keys}

\* the pod names of the events
EventNames == {ForeignName, _create_pod_id(Key1[1], Key1[2], 1)}

\* the watch queue before the event
EventQueues == {<<>>, <<<<ForeignName, State_FAILED, [n \in {"airflow-slave"} |-> <<>>]>>>>}

\* an event of the stream is about to be handled
InitStatus ==
    /\ NotStarted
    /\ \E pod_id \in EventNames, status \in EventPhases, labels \in EventLabels,
          queue \in EventQueues :
          call = [done |-> FALSE,
                  in |-> [pod_id |-> pod_id, status |-> status, labels |-> labels,
                          queue |-> queue],
                  out |-> <<>>]

\* KubernetesJobWatcher._run hands the event to process_status
ProcessStatus ==
    /\ ~call.done
    /\ call' = [call EXCEPT !.done = TRUE,
                            !.out = process_status(call.in.queue, call.in.pod_id,
                                                   call.in.status, call.in.labels)]
    /\ UNCHANGED running_vars

NextStatus == ProcessStatus

SpecStatus == InitStatus /\ [][NextStatus]_vars

(* C14: process_status puts an entry on the watch queue if and only if the phase
   of the event is Succeeded or Failed; for Pending, Running and every other
   string the queue stays as it is; the entry is put behind the others and
   carries the pod name and the labels of the event as they came. *)
C14_PhaseMapping ==
    call.done =>
        IF call.in.status \in {"Succeeded", "Failed"}
        THEN /\ Len(call.out) = Len(call.in.queue) + 1
             /\ SubSeq(call.out, 1, Len(call.in.queue)) = call.in.queue
             /\ call.out[Len(call.out)][1] = call.in.pod_id
             /\ call.out[Len(call.out)][3] = call.in.labels
        ELSE call.out = call.in.queue

\* a Succeeded event has been put behind an entry that waited
C14_Witness ==
    /\ call.done
    /\ call.in.status = "Succeeded"
    /\ call.in.queue # <<>>
    /\ Len(call.out) = 2
    /\ call.out[2] = <<call.in.pod_id, State_NONE, call.in.labels>>

----------------------------------------------------------------------------
(* Pod names *)

\* how long the longest dag_id and task_id of the inputs are
LongLen == 260

Repeat(ch, n) == [i \in 1..n |-> ch]

HexDigits == <<"0", "1", "2", "3", "4", "5", "6", "7", "8", "9", "a", "b", "c", "d", "e", "f">>

\* uuid4().hex of the uuid-th value drawn: 32 hexadecimal digits
Hex(uuid) == [i \in 1..UuidLen |-> HexDigits[((uuid + i) % 16) + 1]]

\* the string _make_safe_pod_id returns: prefix + "-" + safe_uuid
pod_name(pod_id) ==
    pod_id.prefix \o <<"-">> \o _strip_unsafe_kubernetes_special_chars(Hex(pod_id.uuid))

\* ^[a-z0-9]([-a-z0-9]*[a-z0-9])?(\.[a-z0-9]([-a-z0-9]*[a-z0-9])?)*$ : labels of
\* a to z, 0 to 9 and "-", joined by ".", each beginning and ending with a letter
\* or digit
MatchesDns1123Subdomain(string) ==
    /\ string # <<>>
    /\ \A i \in DOMAIN string : string[i] \in LowerAlnum \cup {"-", "."}
    /\ string[1] \in LowerAlnum
    /\ string[Len(string)] \in LowerAlnum
    /\ \A i \in DOMAIN string :
          (string[i] = "." /\ 1 < i /\ i < Len(string)) =>
              string[i - 1] \in LowerAlnum /\ string[i + 1] \in LowerAlnum

\* the dag_id and task_id strings of the inputs
IdStrings ==
    {<<>>, <<".">>, <<"-", "_">>, <<"D", "a", "g", ".", "1">>, <<"T", "-", "1">>,
     Repeat("a", LongLen)}

\* run_next is about to name a pod
InitPodName ==
    /\ NotStarted
    /\ \E dag_id \in IdStrings, task_id \in IdStrings, uuid \in {1, 2, 3} :
          call = [done |-> FALSE,
                  in |-> [dag_id |-> dag_id, task_id |-> task_id, uuid |-> uuid],
                  out |-> <<>>]

\* AirflowKubernetesScheduler._create_pod_id
CreatePodId ==
    /\ ~call.done
    /\ call' = [call EXCEPT !.done = TRUE,
                            !.out = pod_name(_create_pod_id(call.in.dag_id,
                                                            call.in.task_id,
                                                            call.in.uuid))]
    /\ UNCHANGED running_vars

NextPodName == CreatePodId

SpecPodName == InitPodName /\ [][NextPodName]_vars

(* C15: for every dag_id and task_id, those that sanitize to the empty string
   and those longer than 253 characters among them, the name _create_pod_id
   returns matches the DNS-1123 subdomain pattern and has at most 253
   characters. *)
C15_PodNameValid ==
    call.done =>
        /\ MatchesDns1123Subdomain(call.out)
        /\ Len(call.out) <= MAX_POD_ID_LEN

\* a dag_id and a task_id without a letter or digit have given a name that
\* begins with "-"
C15_Witness ==
    /\ call.done
    /\ _strip_unsafe_kubernetes_special_chars(call.in.dag_id \o call.in.task_id) = <<>>
    /\ call.in.dag_id # <<>>
    /\ call.out[1] = "-"
    /\ Len(call.out) = UuidLen + 1

----------------------------------------------------------------------------
(* The labels of a launched pod *)

\* the longest value the cluster takes for a label
MaxLabelValueLen == 63

\* a job is about to be handed to run_next
InitLabels ==
    /\ NotStarted
    /\ \E dag_id \in IdStrings, task_id \in IdStrings, execution_date \in Datetimes :
          call = [done |-> FALSE,
                  in |-> <<dag_id, task_id, execution_date>>,
                  out |-> <<>>]

\* AirflowKubernetesScheduler.run_next builds the pod of the job
RunNextMakePod ==
    /\ ~call.done
    /\ call' = [call EXCEPT !.done = TRUE,
                            !.out = run_next_pod(<<call.in, Command(call.in)>>, 1).labels]
    /\ UNCHANGED running_vars

NextLabels == RunNextMakePod

SpecLabels == InitLabels /\ [][NextLabels]_vars

(* C16: the labels of the pod run_next builds for a key (dag_id, task_id,
   execution_time) contain airflow-slave, and _labels_to_key gives back a key
   equal to that key. *)
C16_LabelRoundTrip ==
    call.done =>
        /\ "airflow-slave" \in DOMAIN call.out
        /\ _labels_to_key(call.out) = call.in

\* the labels of a key whose execution time has microseconds have been decoded
\* to the key
C16_Witness ==
    /\ call.done
    /\ call.in[3].microsecond = 120
    /\ call.in[1] = <<"D", "a", "g", ".", "1">>
    /\ Len(call.out["execution_date"]) = 26
    /\ _labels_to_key(call.out)[3] = call.in[3]

\* a label value of letters, digits, "-", "_" and ".", of at most 63 characters
LabelValueSyntax(string) ==
    /\ Len(string) <= MaxLabelValueLen
    /\ \A i \in DOMAIN string :
          string[i] \in LowerAlnum \cup {"D", "T"} \cup {"-", "_", "."}

(* C17: the values of the labels dag_id, task_id and execution_date of a pod
   run_next builds are of letters, digits, "-", "_" and ".", have at most 63
   characters and hold no ":". *)
C17_LabelSyntax ==
    call.done =>
        \A n \in {"dag_id", "task_id", "execution_date"} :
            /\ LabelValueSyntax(call.out[n])
            /\ \A i \in DOMAIN call.out[n] : call.out[n][i] # ":"

\* the pod of a task whose dag_id has more than 63 characters carries the dag_id
\* as it is
C17_Witness ==
    /\ call.done
    /\ Len(call.in[1]) > MaxLabelValueLen
    /\ call.out["dag_id"] = call.in[1]
    /\ LabelValueSyntax(call.out["task_id"])
    /\ LabelValueSyntax(call.out["execution_date"])

----------------------------------------------------------------------------
(* C18: every delete call of the executor names a pod that carries
   airflow-slave, that is in phase Succeeded or Failed, and of which the call
   has taken a watch-queue entry; no delete call names a pod in phase Pending,
   Running or Unknown. *)
C18_DeletesOnlyReportedPods ==
    \A j \in DOMAIN sync_log.changes :
        sync_log.changes[j].response # "no call" =>
            LET pod_id == sync_log.changes[j].pod_id
            IN /\ pod_id \in DOMAIN pods
               /\ "airflow-slave" \in DOMAIN pods[pod_id].labels
               /\ pods[pod_id].phase \in {"Succeeded", "Failed"}
               /\ \E i \in DOMAIN Taken :
                     /\ Taken[i][1] = pod_id
                     /\ Taken[i][3] = pods[pod_id].labels

\* a call has deleted a finished pod while another pod is running, and has
\* returned with the running pod in place
C18_Witness ==
    /\ pc = "returned"
    /\ \E j \in DOMAIN sync_log.changes : sync_log.changes[j].response = "200"
    /\ \E pod_id \in DOMAIN pods :
          /\ pods[pod_id].phase = "Running"
          /\ pods[pod_id].status = "present"
          /\ ~DeleteIssued(pod_id)

----------------------------------------------------------------------------
(* C20: for every terminal result a call has applied, one delete call has been
   issued if delete_worker_pods is true and none if it is false, and in both
   cases the result is in the event buffer and its key is out of the running
   set. *)
C20_DeleteGated ==
    \A j \in DOMAIN sync_log.changes :
        sync_log.changes[j].state # State_RUNNING =>
            /\ delete_worker_pods => sync_log.changes[j].response \in {"200", "404", "500"}
            /\ ~delete_worker_pods => sync_log.changes[j].response = "no call"
            /\ event_buffer[sync_log.changes[j].key] = sync_log.changes[j].state
            /\ sync_log.changes[j].key \notin running

\* the one delete call for a result was answered 500: the result is not in the
\* event buffer and its key is still in the running set
C20_Witness ==
    /\ delete_worker_pods
    /\ Len(sync_log.changes) = 1
    /\ sync_log.changes[1].response = "500"
    /\ event_buffer[sync_log.changes[1].key] = "absent"
    /\ sync_log.changes[1].key \in running

----------------------------------------------------------------------------
(* Recovery of the watcher: one task, whose pod the watcher may miss *)

\* the pod of the first launch of Key1
Pod1 == _create_pod_id(Key1[1], Key1[2], 1)

\* Notes, for the pod of Key1, that sync() has just started a new watcher while
\* the pod was in a phase that is not terminal.  Changes nothing of the program.
NoteRespawn ==
    /\ ~call.done
    /\ pc = "watch"
    /\ sync_log.started = 1
    /\ Pod1 \in DOMAIN pods /\ pods[Pod1].phase \in {"Pending", "Running"}
    /\ call' = [done |-> TRUE]
    /\ UNCHANGED running_vars

NextRecovery ==
    \/ Submit(Key1)
    \/ SyncBegin
    \/ ProcessWatcherTask
    \/ WatchDrained
    \/ ChangeState
    \/ Launch
    \/ GetEventBuffer
    \/ PodPhaseChange(Pod1)
    \/ WatcherEvent(Pod1)
    \/ WatcherRaise
    \/ NoteRespawn

\* The scheduler keeps calling sync() and reading the event buffer, each call
\* runs to its end, and a watcher that is alive again and again hands on the
\* event of a pod that stays as it is (a new watcher's stream begins with the
\* pods as they are).
SpecRecovery ==
    /\ Init
    /\ [][NextRecovery]_vars
    /\ WF_vars(SyncBegin)
    /\ WF_vars(ProcessWatcherTask)
    /\ WF_vars(WatchDrained)
    /\ WF_vars(ChangeState)
    /\ WF_vars(Launch)
    /\ WF_vars(GetEventBuffer)
    /\ SF_vars(WatcherEvent(Pod1))

\* the pod of Key1 is in the cluster in phase Succeeded or Failed
Pod1Finished ==
    /\ Pod1 \in DOMAIN pods
    /\ pods[Pod1].phase \in {"Succeeded", "Failed"}
    /\ pods[Pod1].status = "present"

\* the result of Key1 is in the event buffer
Key1Recorded == event_buffer[Key1] # "absent"

(* C19: if sync() has started a new watcher while the pod of a task was in a
   phase that is not terminal, then whenever the pod is, later, in the cluster in
   phase Succeeded or Failed, its result gets into the event buffer, as long as
   sync() keeps being called (a sync() that raises ends the calls). *)
C19_RecoveryLosesNoEvent ==
    (call.done /\ Pod1Finished) ~> (Key1Recorded \/ pc = "raised")

\* after a new watcher was started while the pod was running, the pod has
\* finished and a later call has put its result into the event buffer
C19_Witness ==
    /\ call.done
    /\ pc = "returned"
    /\ sync_log.was_alive
    /\ pods[Pod1].phase \in {"Succeeded", "Failed"}
    /\ \E i \in DOMAIN Taken : Taken[i][1] = Pod1
    /\ Key1Recorded

----------------------------------------------------------------------------
(* KubernetesJobWatcher.run: the streams of one watcher after another *)

\* how a stream may end: the generator stops returning values, or it raises
stream_ends == {"StopIteration", "Exception"}

\* run that returns when the stream ends cleanly
run_returns_on_end(how) ==
    [alive |-> FALSE, between |-> FALSE]

\* KubernetesJobWatcher.run: what becomes of the process when _run ends: on an
\* exception it logs and re-raises, and the process exits; otherwise it logs
\* the warning in the else branch and the loop goes on
run(how) ==
    IF how = "Exception"
    THEN [alive |-> FALSE, between |-> FALSE]
    ELSE [alive |-> TRUE, between |-> TRUE]

\* the executor as start() leaves it, with the watcher in its first stream;
\* call follows the watcher's run: whether it is between two streams, how the
\* last stream ended and the pods as they were when a stream last ended cleanly
InitWatcher ==
    /\ pc = "idle"
    /\ task_queue = <<>>
    /\ result_queue = <<>>
    /\ watcher_queue = <<>>
    /\ running = {}
    /\ event_buffer = [k \in Keys |-> "absent"]
    /\ ti_state = [k \in Keys |-> State_NONE]
    /\ kube_watcher = "alive"
    /\ pods = <<>>
    /\ uuids = 0
    /\ submitted = {}
    /\ delete_worker_pods \in BOOLEAN
    /\ sync_log = EmptyLog
    /\ unfinished_tasks = 0
    /\ call = [done |-> FALSE, between |-> FALSE, last |-> "none", pods |-> <<>>]

\* KubernetesJobWatcher.run: the stream of _run ends.  The executor looks at
\* the process only when sync() begins, so an end during a call is an end
\* after it.
StreamEnd(how) ==
    /\ pc = "idle"
    /\ kube_watcher = "alive"
    /\ ~call.between
    /\ kube_watcher' = IF run(how).alive THEN "alive" ELSE "dead"
    /\ call' = [call EXCEPT !.between = run(how).between,
                            !.last = how,
                            !.pods = IF how = "StopIteration" THEN pods ELSE @]
    /\ UNCHANGED <<pc, task_queue, result_queue, watcher_queue, running, event_buffer,
                   ti_state, pods, uuids, submitted, delete_worker_pods,
                   unfinished_tasks, sync_log>>

\* KubernetesJobWatcher.run: after the warning the loop calls _run again, which
\* opens a new stream
RunLoop ==
    /\ kube_watcher = "alive"
    /\ call.between
    /\ call' = [call EXCEPT !.between = FALSE]
    /\ UNCHANGED running_vars

\* KubernetesJobWatcher._run: an event of the stream that is open
StreamEvent(pod_id) ==
    /\ ~call.between
    /\ WatcherEvent(pod_id)

NextWatcher ==
    \/ Submit(Key1)
    \/ SyncBegin
    \/ ProcessWatcherTask
    \/ WatchDrained
    \/ ChangeState
    \/ Launch
    \/ GetEventBuffer
    \/ PodPhaseChange(Pod1)
    \/ StreamEvent(Pod1)
    \/ \E how \in stream_ends : StreamEnd(how)
    \/ RunLoop

\* The else branch of run only logs, so a watcher between two streams gets to
\* its next one.
SpecWatcher ==
    /\ InitWatcher
    /\ [][NextWatcher]_vars
    /\ WF_vars(RunLoop)

\* the step is the end of a stream
EndsStream(how) == call'.last = how /\ call' # call /\ ~call.between

\* the step is the liveness step of a sync() call
BeginsSync == pc = "idle" /\ pc' = "watch"

(* C21: when a stream ends cleanly the watcher stays alive, and it stays alive
   until it has opened its next stream, which it does; when a stream raises the
   watcher is dead from then on until a sync() begins, and that sync() finds
   is_alive() false. *)
C21_StreamDiscipline ==
    /\ [][/\ EndsStream("StopIteration") => (kube_watcher' = "alive" /\ call'.between)
          /\ call.between => kube_watcher' = "alive"
          /\ EndsStream("Exception") => kube_watcher' = "dead"
          /\ kube_watcher = "dead" =>
                \/ kube_watcher' = "dead" /\ ~BeginsSync
                \/ BeginsSync /\ ~sync_log'.was_alive]_vars
    /\ call.between ~> (~call.between /\ kube_watcher = "alive")

\* a stream ended cleanly while the pod of Key1 was not finished, the watcher
\* then put the pod's terminal event, its next stream raised, and the sync()
\* that began after that found the watcher dead and the event in the watch queue
C21_Witness ==
    /\ call.last = "Exception"
    /\ Pod1 \in DOMAIN call.pods
    /\ call.pods[Pod1].phase \in {"Pending", "Running"}
    /\ pc = "watch"
    /\ ~sync_log.was_alive
    /\ \E i \in DOMAIN sync_log.watch_at_start :
          /\ sync_log.watch_at_start[i][1] = Pod1
          /\ sync_log.watch_at_start[i][2] \in {State_FAILED, State_NONE}

----------------------------------------------------------------------------
(* The order of the results *)

\* the labels of the watch-queue entry decode to a key
Decodes(task) == _labels_to_key(task[3]) # <<>>

\* the results of the watch-queue entries the current call has taken, in the
\* order in which the entries were taken
ResultsInOrder ==
    LET decoded == SelectSeq(Taken, Decodes)
    IN [i \in DOMAIN decoded |->
           <<_labels_to_key(decoded[i][3]), decoded[i][2], decoded[i][1]>>]

(* C22: the watch queue hands its entries to sync() in the order in which the
   watcher put them (the entries there when the call began come first, as they
   were), and the results _change_state has been applied to, followed by the
   results still waiting, are the results of the entries taken, in the order
   in which they were taken; a call that returns has applied them all.  So of
   two terminal events the one put first is applied first, within a call and
   from one call to the next. *)
C22_StreamOrder ==
    /\ sync_log.called =>
          \/ IsPrefix(Taken, sync_log.watch_at_start)
          \/ IsPrefix(sync_log.watch_at_start, Taken)
    /\ Changed \o result_queue = ResultsInOrder
    /\ pc \in {"idle", "returned"} => result_queue = <<>>

\* a call has returned that found the terminal events of two pods on the watch
\* queue and applied the result of the first before that of the second
C22_Witness ==
    /\ pc = "returned"
    /\ Len(sync_log.watch_at_start) = 2
    /\ Taken = sync_log.watch_at_start
    /\ Taken[1][1] # Taken[2][1]
    /\ Len(Changed) = 2
    /\ Changed[1][3] = Taken[1][1]
    /\ Changed[2][3] = Taken[2][1]

----------------------------------------------------------------------------
(* PodMaker: the volumes of a worker pod *)

\* the dags_folder of the configuration
dags_folder == "/dags"

\* the values of the options that one test for truth tells apart
OptionalValues == {None, "a"}

\* PodMaker._get_volumes_and_mounts: the volumes of the pod and the mounts of
\* the worker container
_get_volumes_and_mounts(kube_config) ==
    LET volume_name == "airflow-dags"
        volume_mount == [name |-> volume_name, mountPath |-> dags_folder,
                         readOnly |-> TRUE, subPath |-> "absent"]
    IN IF Truthy(kube_config.dags_volume_claim)
       THEN [volumes |->
                <<[name |-> "airflow-dags",
                   persistentVolumeClaim |->
                       [claimName |-> kube_config.dags_volume_claim],
                   emptyDir |-> "absent"]>>,
             volume_mounts |->
                <<IF Truthy(kube_config.dags_volume_subpath)
                  THEN [volume_mount EXCEPT !.subPath = kube_config.dags_volume_subpath]
                  ELSE volume_mount>>]
       ELSE [volumes |->
                <<[name |-> volume_name, persistentVolumeClaim |-> "absent",
                   emptyDir |-> "{}"]>>,
             volume_mounts |-> <<volume_mount>>]

\* the environment of the git-sync container
init_environment(kube_config) ==
    <<[name |-> "GIT_SYNC_REPO", value |-> kube_config.git_repo],
      [name |-> "GIT_SYNC_BRANCH", value |-> kube_config.git_branch],
      [name |-> "GIT_SYNC_ROOT", value |-> dags_folder],
      [name |-> "GIT_SYNC_DEST", value |-> ""],
      [name |-> "GIT_SYNC_ONE_TIME", value |-> "true"]>>
    \o (IF Truthy(kube_config.git_user)
        THEN <<[name |-> "GIT_SYNC_USERNAME", value |-> kube_config.git_user]>>
        ELSE <<>>)
    \o (IF Truthy(kube_config.git_password)
        THEN <<[name |-> "GIT_SYNC_PASSWORD", value |-> kube_config.git_password]>>
        ELSE <<>>)

\* PodMaker._get_init_containers: the containers it returns, and the list it
\* was given as the call leaves it (in git-sync mode it makes the first mount
\* of that list read-write)
_get_init_containers(kube_config, volume_mounts) ==
    IF Truthy(kube_config.dags_volume_claim)
    THEN [init_containers |-> <<>>, volume_mounts |-> volume_mounts]
    ELSE LET written == [volume_mounts EXCEPT ![1].readOnly = FALSE]
         IN [init_containers |->
                <<[name |-> "git-sync-clone",
                   image |-> "gcr.io/google-containers/git-sync-amd64:v2.0.5",
                   env |-> init_environment(kube_config),
                   volumeMounts |-> written]>>,
             volume_mounts |-> written]

\* make_pod that hands its own list of mounts to _get_init_containers
make_pod_volumes_no_copy(kube_config) ==
    LET made == _get_volumes_and_mounts(kube_config)
        init == _get_init_containers(kube_config, made.volume_mounts)
    IN [volumes |-> made.volumes,
        volume_mounts |-> init.volume_mounts,
        init_containers |-> init.init_containers]

\* PodMaker.make_pod: the volumes, the mounts of the worker container and the
\* init containers it gives the pod; _get_init_containers works on a deep copy
\* of the mounts, so the pod's own list is as _get_volumes_and_mounts made it
make_pod_volumes(kube_config) ==
    LET made == _get_volumes_and_mounts(kube_config)
        volume_mounts_copy == made.volume_mounts
        init == _get_init_containers(kube_config, volume_mounts_copy)
    IN [volumes |-> made.volumes,
        volume_mounts |-> made.volume_mounts,
        init_containers |-> init.init_containers]

\* a configuration KubeConfig has accepted; make_pod is about to be called
InitVolumes ==
    /\ NotStarted
    /\ \E dags_volume_claim \in OptionValues, git_repo \in OptionValues,
          git_branch \in OptionValues, dags_volume_subpath \in OptionalValues,
          git_user \in OptionalValues, git_password \in OptionalValues :
          /\ _validate(dags_volume_claim, git_repo, git_branch) = "ok"
          /\ call = [done |-> FALSE,
                     in |-> [dags_volume_claim |-> dags_volume_claim,
                             git_repo |-> git_repo, git_branch |-> git_branch,
                             dags_volume_subpath |-> dags_volume_subpath,
                             git_user |-> git_user, git_password |-> git_password],
                     out |-> <<>>]

\* PodMaker.make_pod builds the pod
MakePod ==
    /\ ~call.done
    /\ call' = [call EXCEPT !.done = TRUE, !.out = make_pod_volumes(call.in)]
    /\ UNCHANGED running_vars

NextVolumes == MakePod

SpecVolumes == InitVolumes /\ [][NextVolumes]_vars

(* C23: the pod make_pod builds has one volume and the worker container one
   mount of it, read-only, at dags_folder.  When dags_volume_claim is set,
   whether or not git_repo and git_branch are set too, the volume is backed
   by that claim and there is no init container; otherwise the volume is an
   emptyDir and there is exactly one init container, git-sync-clone, whose one
   mount of the volume is read-write. *)
C23_VolumeModes ==
    call.done =>
        /\ Len(call.out.volumes) = 1
        /\ Len(call.out.volume_mounts) = 1
        /\ call.out.volume_mounts[1].name = call.out.volumes[1].name
        /\ call.out.volume_mounts[1].mountPath = dags_folder
        /\ call.out.volume_mounts[1].readOnly
        /\ IF ClaimSet
           THEN /\ call.out.volumes[1].persistentVolumeClaim =
                       [claimName |-> call.in.dags_volume_claim]
                /\ call.out.volumes[1].emptyDir = "absent"
                /\ call.out.init_containers = <<>>
           ELSE /\ call.out.volumes[1].emptyDir = "{}"
                /\ call.out.volumes[1].persistentVolumeClaim = "absent"
                /\ Len(call.out.init_containers) = 1
                /\ call.out.init_containers[1].name = "git-sync-clone"
                /\ Len(call.out.init_containers[1].volumeMounts) = 1
                /\ call.out.init_containers[1].volumeMounts[1].name =
                       call.out.volumes[1].name
                /\ ~call.out.init_containers[1].volumeMounts[1].readOnly

\* a pod has been built in git-sync mode
C23_Witness ==
    /\ call.done
    /\ ~ClaimSet /\ GitPairSet
    /\ Len(call.out.init_containers) = 1
    /\ ~call.out.init_containers[1].volumeMounts[1].readOnly
    /\ call.out.volume_mounts[1].readOnly

----------------------------------------------------------------------------
(* KubernetesExecutor._change_state by itself: a result that comes twice *)

\* the states a result may carry
ResultStates == {State_FAILED, State_NONE, State_RUNNING}

\* the phase of a pod whose result carries the state
PhaseOf(state) ==
    IF state = State_FAILED THEN "Failed"
    ELSE IF state = State_NONE THEN "Succeeded"
    ELSE "Running"

\* sync() has reached its loop over the result queue, which holds the result
\* of one pod twice; the rows are in any state and the pod is in the cluster;
\* call keeps the rows as they were and, later, what the first pass left
InitChange ==
    /\ pc = "results"
    /\ task_queue = <<>>
    /\ watcher_queue = <<>>
    /\ \E key \in Keys, state \in ResultStates :
          LET pod_id == _create_pod_id(key[1], key[2], 1)
              labels == make_pod_labels(key[1], key[2],
                                        _datetime_to_label_safe_datestring(key[3]))
          IN /\ result_queue = <<<<key, state, pod_id>>, <<key, state, pod_id>>>>
             /\ pods = [p \in {pod_id} |->
                           [labels |-> labels, phase |-> PhaseOf(state),
                            status |-> "present"]]
             /\ submitted = {key}
    /\ running \in SUBSET Keys
    /\ event_buffer = [k \in Keys |-> "absent"]
    /\ ti_state \in [Keys -> RowStates]
    /\ kube_watcher = "alive"
    /\ uuids = 1
    /\ delete_worker_pods \in BOOLEAN
    /\ sync_log = [EmptyLog EXCEPT !.called = TRUE]
    /\ unfinished_tasks = 1
    /\ call = [done |-> FALSE, in |-> ti_state, before |-> running, once |-> <<>>]

\* Notes what the first pass of the loop has left.  Changes nothing of the
\* program.
NoteOnce ==
    /\ ~call.done
    /\ pc = "results"
    /\ Len(sync_log.changes) = 1
    /\ call' = [call EXCEPT !.done = TRUE,
                            !.once = [event_buffer |-> event_buffer,
                                      running |-> running,
                                      ti_state |-> ti_state]]
    /\ UNCHANGED running_vars

NextChange ==
    \/ ChangeState
    \/ NoteOnce

SpecChange == InitChange /\ [][NextChange]_vars

\* the step applies _change_state to the result at the head of the result queue
AppliesChange == result_queue # <<>> /\ result_queue' = Tail(result_queue)

(* C24: _change_state for a result of key K leaves the row of K as it is when
   that row is in a state other than RUNNING and QUEUED, and leaves the row of
   every other key as it is. *)
C24_RowFrame ==
    [][AppliesChange =>
          LET key == Head(result_queue)[1]
          IN /\ \A k \in Keys \ {key} : ti_state'[k] = ti_state[k]
             /\ ti_state[key] \notin {State_RUNNING, State_QUEUED} =>
                   ti_state'[key] = ti_state[key]]_vars

\* _change_state has been applied to a failure of a key whose row was
\* up_for_retry, and the row still is
C24_Witness ==
    /\ Len(sync_log.changes) = 1
    /\ ~sync_log.changes[1].raised
    /\ sync_log.changes[1].state = State_FAILED
    /\ sync_log.changes[1].row = "up_for_retry"
    /\ ti_state[sync_log.changes[1].key] = "up_for_retry"
    /\ event_buffer[sync_log.changes[1].key] = State_FAILED

\* the second delete call of the two passes was answered 404, or none was made
SecondDeleteNotFound == sync_log.changes[2].response \in {"404", "no call"}

(* C25: when _change_state has been applied twice in succession to the same
   terminal result, the first time without raising and the second time with
   the delete call answered 404 (or with no delete call, delete_worker_pods
   being off), the second time has not raised and the event buffer, the
   running set and the rows are as the first time left them. *)
C25_DuplicateIdempotent ==
    (/\ call.done
     /\ Len(sync_log.changes) = 2
     /\ sync_log.changes[1].state # State_RUNNING
     /\ SecondDeleteNotFound)
    => /\ ~sync_log.changes[2].raised
       /\ event_buffer = call.once.event_buffer
       /\ running = call.once.running
       /\ ti_state = call.once.ti_state

\* a failure of a running task has been applied twice: the first delete call
\* was answered 200 and took the key from the running set, the second was
\* answered 404
C25_Witness ==
    /\ call.done
    /\ Len(sync_log.changes) = 2
    /\ sync_log.changes[1].state = State_FAILED
    /\ sync_log.changes[1].row = State_RUNNING
    /\ sync_log.changes[1].response = "200"
    /\ sync_log.changes[1].key \in call.before
    /\ sync_log.changes[2].response = "404"
    /\ ~sync_log.changes[2].raised
    /\ ti_state[sync_log.changes[1].key] = State_FAILED

----------------------------------------------------------------------------
(* One sync() call, with the test of empty() and the get() as two steps *)

\* the pod of the second launch, of Key2
Pod2 == _create_pod_id(Key2[1], Key2[2], 2)

\* a loop that calls get() without looking at the queue
loop_goes_on_always(queue) == TRUE

\* "while not queue.empty()": whether the loop goes into its body
loop_goes_on(queue) == queue # <<>>

\* two tasks have been launched and their pods run; no sync() call is going on
TwoPodsRunning ==
    /\ pc = "idle"
    /\ task_queue = <<>>
    /\ result_queue = <<>>
    /\ watcher_queue = <<>>
    /\ running = Keys
    /\ event_buffer = [k \in Keys |-> "absent"]
    /\ ti_state = [k \in Keys |-> State_RUNNING]
    /\ kube_watcher = "alive"
    /\ pods = [p \in {Pod1, Pod2} |->
                 LET key == IF p = Pod1 THEN Key1 ELSE Key2
                 IN [labels |-> make_pod_labels(
                                   key[1], key[2],
                                   _datetime_to_label_safe_datestring(key[3])),
                     phase |-> "Running", status |-> "present"]]
    /\ uuids = 2
    /\ submitted = Keys
    /\ delete_worker_pods \in BOOLEAN
    /\ sync_log = EmptyLog
    /\ unfinished_tasks = 2

\* the scheduler is about to call sync(); call counts the tests of empty() that
\* sent each loop into its body
InitGet ==
    /\ TwoPodsRunning
    /\ call = [done |-> FALSE, watch_tests |-> 0, result_tests |-> 0]

\* the loop over the watch queue is at its get(), after a test of empty()
AtWatchGet == pc = "watch" /\ call.watch_tests = Len(sync_log.consumed) + 1

\* the loop over the watch queue is at its test of empty()
AtWatchTest == pc = "watch" /\ call.watch_tests = Len(sync_log.consumed)

\* the loop over the result queue is at its get(), after a test of empty()
AtResultGet == pc = "results" /\ call.result_tests = Len(sync_log.changes) + 1

\* the loop over the result queue is at its test of empty()
AtResultTest == pc = "results" /\ call.result_tests = Len(sync_log.changes)

\* AirflowKubernetesScheduler.sync: the test of the loop sends it into its body
WatchTest ==
    /\ AtWatchTest
    /\ loop_goes_on(watcher_queue)
    /\ call' = [call EXCEPT !.watch_tests = @ + 1]
    /\ UNCHANGED running_vars

\* AirflowKubernetesScheduler.sync: process_watcher_task, whose get() returns
\* when the watch queue holds an entry
WatchGet ==
    /\ AtWatchGet
    /\ ProcessWatcherTask

\* AirflowKubernetesScheduler.sync: the test of the loop ends it
WatchEnd ==
    /\ AtWatchTest
    /\ ~loop_goes_on(watcher_queue)
    /\ WatchDrained

\* KubernetesExecutor.sync: the test of the loop sends it into its body
ResultTest ==
    /\ AtResultTest
    /\ loop_goes_on(result_queue)
    /\ call' = [call EXCEPT !.result_tests = @ + 1]
    /\ UNCHANGED running_vars

\* KubernetesExecutor.sync: the body of the loop, whose get() returns when the
\* result queue holds an entry
ResultGet ==
    /\ AtResultGet
    /\ ChangeState

\* KubernetesExecutor.sync: the test of the loop ends it; the launch step
ResultEnd ==
    /\ AtResultTest
    /\ ~loop_goes_on(result_queue)
    /\ Launch

NextGet ==
    \/ SyncBegin
    \/ WatchTest
    \/ WatchGet
    \/ WatchEnd
    \/ ResultTest
    \/ ResultGet
    \/ ResultEnd
    \/ \E pod_id \in {Pod1, Pod2} : PodPhaseChange(pod_id)
    \/ \E pod_id \in {Pod1, Pod2} : WatcherEvent(pod_id)
    \/ WatcherRaise

SpecGet == InitGet /\ [][NextGet]_vars

(* C26: whenever sync() is at a get() on the watch queue or on the result
   queue, that queue holds an entry, whatever the watcher has put on the watch
   queue in the meantime: no get() of sync() waits. *)
C26_GetNeverBlocks ==
    /\ AtWatchGet => watcher_queue # <<>>
    /\ AtResultGet => result_queue # <<>>

\* sync() is at the get() on the watch queue, and the watcher has put a second
\* entry since the test of empty()
C26_Witness ==
    /\ AtWatchGet
    /\ sync_log.consumed = <<>>
    /\ Len(sync_log.watch_at_start) = 1
    /\ Len(watcher_queue) = 2

----------------------------------------------------------------------------
(* The watcher processes the executor has started *)

\* the most watcher processes looked at
MaxWatchers == 3

\* call lists the processes _make_kube_watcher has started, each alive or dead;
\* the last is the one self.kube_watcher refers to
InitProcesses ==
    /\ TwoPodsRunning
    /\ call = [done |-> FALSE, processes |-> <<"alive">>]

\* AirflowKubernetesScheduler._health_check_kube_watcher, as sync() calls it
HealthCheck ==
    /\ pc = "idle"
    /\ LET health == _health_check_kube_watcher(kube_watcher)
       IN /\ health.started = 1 => Len(call.processes) < MaxWatchers
          /\ kube_watcher' = health.kube_watcher
          /\ call' = IF health.started = 1
                     THEN [call EXCEPT !.processes = Append(@, health.kube_watcher)]
                     ELSE call
    /\ UNCHANGED <<pc, task_queue, result_queue, watcher_queue, running, event_buffer,
                   ti_state, pods, uuids, submitted, delete_worker_pods,
                   unfinished_tasks, sync_log>>

\* KubernetesJobWatcher.run: the stream of a process raises and the process exits
ProcessExit(i) ==
    /\ pc = "idle"
    /\ i \in DOMAIN call.processes
    /\ call.processes[i] = "alive"
    /\ call' = [call EXCEPT !.processes[i] = "dead"]
    /\ kube_watcher' = IF i = Len(call.processes) THEN "dead" ELSE kube_watcher
    /\ UNCHANGED <<pc, task_queue, result_queue, watcher_queue, running, event_buffer,
                   ti_state, pods, uuids, submitted, delete_worker_pods,
                   unfinished_tasks, sync_log>>

NextProcesses ==
    \/ HealthCheck
    \/ \E i \in 1..MaxWatchers : ProcessExit(i)
    \/ \E pod_id \in {Pod1, Pod2} : PodPhaseChange(pod_id)
    \/ \E pod_id \in {Pod1, Pod2} : WatcherEvent(pod_id)

SpecProcesses == InitProcesses /\ [][NextProcesses]_vars

\* the processes started so far that are alive
LiveWatchers == {i \in DOMAIN call.processes : call.processes[i] = "alive"}

(* C27: of the watcher processes the executor has started at most one is alive,
   and the one alive is the process self.kube_watcher refers to, the last one
   started: no two live watchers write to the watch queue. *)
C27_OneLiveWatcher ==
    /\ Cardinality(LiveWatchers) <= 1
    /\ LiveWatchers \subseteq {Len(call.processes)}
    /\ kube_watcher = "alive" <=> LiveWatchers # {}

\* the first watcher has died, the health check has started a second, and the
\* second has put a terminal event on the watch queue
C27_Witness ==
    /\ call.processes = <<"dead", "alive">>
    /\ kube_watcher = "alive"
    /\ watcher_queue # <<>>

----------------------------------------------------------------------------
(* The tasks from execute_async to run_next *)

\* call keeps, in the order of the execute_async calls, each job with its place
\* in the task queue after the put and the number of sync() calls that have
\* returned since (up to the one that handed it to run_next); the jobs handed
\* to run_next, in order; and whether the return of the current call is noted
InitLaunch ==
    /\ pc = "idle"
    /\ task_queue = <<>>
    /\ result_queue = <<>>
    /\ watcher_queue = <<>>
    /\ running = {}
    /\ event_buffer = [k \in Keys |-> "absent"]
    /\ ti_state = [k \in Keys |-> State_NONE]
    /\ kube_watcher = "alive"
    /\ pods = <<>>
    /\ uuids = 0
    /\ submitted = {}
    /\ delete_worker_pods \in BOOLEAN
    /\ sync_log = EmptyLog
    /\ unfinished_tasks = 0
    /\ call = [done |-> FALSE, order |-> <<>>, handed |-> <<>>, returned |-> FALSE]

\* what call keeps is up to date
Noted ==
    /\ Len(call.order) = Cardinality(submitted)
    /\ call.returned <=> pc = "returned"

\* Notes an execute_async call, or the return of a sync() call with the job it
\* handed to run_next, or that the scheduler has gone on.  Changes nothing of
\* the program.
Note ==
    /\ ~Noted
    /\ call' =
          IF Len(call.order) # Cardinality(submitted)
          THEN [call EXCEPT !.order = Append(@, [job |-> task_queue[Len(task_queue)],
                                                 place |-> Len(task_queue),
                                                 waited |-> 0])]
          ELSE IF pc = "returned"
          THEN [call EXCEPT
                   !.returned = TRUE,
                   !.order = [i \in DOMAIN @ |->
                                 IF i > Len(call.handed)
                                 THEN [@[i] EXCEPT !.waited = @ + 1] ELSE @[i]],
                   !.handed = @ \o [l \in DOMAIN sync_log.launched |->
                                       sync_log.launched[l].job]]
          ELSE [call EXCEPT !.returned = FALSE]
    /\ UNCHANGED running_vars

NextLaunch ==
    \/ Noted /\ \E key \in Keys : Submit(key)
    \/ Noted /\ SyncBegin
    \/ Noted /\ ProcessWatcherTask
    \/ Noted /\ WatchDrained
    \/ Noted /\ ChangeState
    \/ Noted /\ Launch
    \/ Noted /\ GetEventBuffer
    \/ Noted /\ PodPhaseChange(Pod1)
    \/ Noted /\ WatcherEvent(Pod1)
    \/ Note

SpecLaunch == InitLaunch /\ [][NextLaunch]_vars

\* the jobs in the order of the execute_async calls
Submitted == [i \in DOMAIN call.order |-> call.order[i].job]

(* C28: the jobs handed to run_next are, in order, the first of the jobs put by
   execute_async, each as it was put and none twice; a job not handed yet is in
   the task queue, once; and the job that was the k-th of the task queue after
   its put is handed to run_next by the k-th sync() call, at the latest, that
   returns after the put. *)
C28_LaunchOnceInOrder ==
    /\ IsPrefix(call.handed, Submitted)
    /\ \A i, j \in DOMAIN call.handed : i # j => call.handed[i] # call.handed[j]
    /\ Noted =>
          /\ task_queue = SubSeq(Submitted, Len(call.handed) + 1, Len(Submitted))
          /\ \A i \in DOMAIN call.order :
                IF i <= Len(call.handed)
                THEN call.order[i].waited <= call.order[i].place
                ELSE call.order[i].waited < call.order[i].place

\* two jobs were put before a sync() call; the first call that returned handed
\* over the first, the second call the second
C28_Witness ==
    /\ Noted
    /\ Len(call.handed) = 2
    /\ call.order[1].place = 1 /\ call.order[1].waited = 1
    /\ call.order[2].place = 2 /\ call.order[2].waited = 2
    /\ call.handed[1][1] # call.handed[2][1]

====
